---- MODULE Spec2Model ----
(***************************************************************************)
(* Model of pywps/validator/complexvalidator.py: the four complex-input    *)
(* validators validategml, validategeojson, validateshapefile and          *)
(* validategeotiff.  Each validator is a sequence of `if mode >= ...`      *)
(* blocks that overwrite one local variable `passed`.  A call is modelled  *)
(* as one atomic action; the local state of the running call (passed, the  *)
(* exception that escaped, the ordered list of checks and library calls,   *)
(* the content of the scratch directory) is threaded through one operator  *)
(* per block.                                                              *)
(***************************************************************************)
EXTENDS Integers, Sequences, FiniteSets, TLC

VARIABLES
    FORMATS,      \* the format registry (pywps.inout.formats.FORMATS)
    data_input,   \* the ComplexInput: file, data_format, tempdir
    fileContent,  \* what is stored at data_input.file (also read by .stream)
    scratch,      \* the files in data_input.tempdir: name -> content
    env,          \* external state: the network and the bundled schemas
    last          \* record of the most recent call since env last changed

vars == <<FORMATS, data_input, fileContent, scratch, env, last>>

\* Bound of the model: the longest archive member list that is enumerated.
MaxMembers == 2

(***************************************************************************)
(* Collaborators that are imported by the module.                          *)
(***************************************************************************)

\* pywps.validator.mode.MODE: the ordered strictness scale.
MODE == [NONE |-> 0, SIMPLE |-> 1, STRICT |-> 2, VERYSTRICT |-> 3]

Modes == {MODE.NONE, MODE.SIMPLE, MODE.STRICT, MODE.VERYSTRICT}

\* pywps.inout.formats.FORMATS: canonical MIME type (and schema) per format.
FormatRegistry ==
    [GML     |-> [mime_type |-> "application/gml+xml",
                  schema    |-> "http://schemas.example/gml.xsd"],
     GEOJSON |-> [mime_type |-> "application/vnd.geo+json", schema |-> ""],
     SHP     |-> [mime_type |-> "application/x-zipped-shp", schema |-> ""],
     GEOTIFF |-> [mime_type |-> "image/tiff; subtype=geotiff", schema |-> ""]]

\* Python's None where a string is expected (mtype of an unknown extension).
None == "<None>"

\* mimetypes.guess_type(name, strict=False)[0]: a lookup of the extension of
\* the file name in the platform's table; None when the extension is unknown.
guess_type(name) ==
    CASE name.ext = ".json" -> "application/json"
      [] name.ext = ".zip"  -> "application/zip"
      [] name.ext = ".tif"  -> "image/tiff"
      [] OTHER              -> None

\* str.lower() on the extensions that occur.
lower(ext) ==
    CASE ext = ".SHP" -> ".shp"
      [] ext = ".Shp" -> ".shp"
      [] ext = ".DBF" -> ".dbf"
      [] OTHER        -> ext

\* os.path.splitext(name): (root, ext).
splitext(name) == <<name.root, name.ext>>

\* The result of a failed ogr.Open / gdal.Open: a falsy object.
NoDataSource == [opened |-> FALSE, Name |-> "", ShortName |-> ""]

\* ogr.Open(path): the vector library detects the format from the bytes it
\* finds at the path and returns a data source whose driver it reports, or
\* a falsy result when no driver recognises the file.
ogr_Open(content) ==
    CASE content.kind \in {"gml_valid", "gml_invalid"} ->
             [opened |-> TRUE, Name |-> "GML", ShortName |-> "GML"]
      [] content.kind \in {"geojson_valid", "geojson_invalid"} ->
             [opened |-> TRUE, Name |-> "GeoJSON", ShortName |-> "GeoJSON"]
      [] content.kind = "shp" ->
             [opened |-> TRUE, Name |-> "ESRI Shapefile",
              ShortName |-> "ESRI Shapefile"]
      [] OTHER -> NoDataSource

\* gdal.Open(path): the raster library, likewise.
gdal_Open(content) ==
    CASE content.kind = "tiff" ->
             [opened |-> TRUE, Name |-> "GeoTIFF", ShortName |-> "GTiff"]
      [] content.kind = "png" ->
             [opened |-> TRUE, Name |-> "Portable Network Graphics",
              ShortName |-> "PNG"]
      [] OTHER -> NoDataSource

\* The running call's local state at entry (passed = False).
Start(dir) == [passed |-> FALSE, exc |-> "none", trace |-> <<>>, dir |-> dir]

\* An exception escapes the call: later blocks no longer run.
Raise(s, e) == [s EXCEPT !.exc = e]

Log(s, ev) == [s EXCEPT !.trace = Append(@, ev)]

(***************************************************************************)
(* validategml                                                             *)
(***************************************************************************)

\* Variant of gml_none: the comparison written as `mode > MODE.NONE`.
gml_none_strictly_above(s, mode) ==
    IF s.exc = "none" /\ mode > MODE.NONE
    THEN [s EXCEPT !.passed = TRUE] ELSE s

\* lines 43-44
gml_none(s, mode) ==
    IF s.exc = "none" /\ mode >= MODE.NONE
    THEN [s EXCEPT !.passed = TRUE] ELSE s

\* lines 46-50
gml_simple(s, di, reg, mode) ==
    IF s.exc = "none" /\ mode >= MODE.SIMPLE
    THEN LET mtype == guess_type(di.file)
         IN  [Log(s, "SIMPLE") EXCEPT
                !.passed = di.data_format.mime_type \in {mtype, reg.GML.mime_type}]
    ELSE s

\* line 57: the comparison of the driver's name
gml_driver_ok(data_source) == data_source.Name = "GML"

\* Variant of gml_strict: the verdict is accumulated with `and`.
gml_strict_conjoined(s, content, mode) ==
    IF s.exc = "none" /\ mode >= MODE.STRICT
    THEN LET data_source == ogr_Open(content)
             t == Log(Log(s, "STRICT"), "ogr.Open")
         IN  IF data_source.opened
             THEN [t EXCEPT !.passed = s.passed /\ gml_driver_ok(data_source)]
             ELSE [t EXCEPT !.passed = FALSE]
    ELSE s

\* lines 52-59
gml_strict(s, content, mode) ==
    IF s.exc = "none" /\ mode >= MODE.STRICT
    THEN LET data_source == ogr_Open(content)
             t == Log(Log(s, "STRICT"), "ogr.Open")
         IN  IF data_source.opened
             THEN [t EXCEPT !.passed = gml_driver_ok(data_source)]
             ELSE [t EXCEPT !.passed = FALSE]
    ELSE s

\* urlopen(schema_url) followed by reading the body: what the URL serves.
\* The empty schema of a format without one is no URL at all.
Web(url) ==
    CASE url = "http://schemas.example/gml.xsd"    -> "xsd_gml"
      [] url = "http://schemas.example/any.xsd"    -> "xsd_any"
      [] url = "http://schemas.example/broken.xsd" -> "not_xml"
      [] url = "http://schemas.example/page.xml"   -> "xml_not_schema"
      [] OTHER                                     -> "no_such_url"

\* Whether etree.parse accepts the bytes (well-formed XML).
IsXML(content) == content.kind \in {"gml_valid", "gml_invalid", "xml_other"}

\* XMLSchema.validate(document): the boolean the schema engine returns.
xsd_validate(xsd, content) ==
    \/ xsd = "xsd_any"
    \/ xsd = "xsd_gml" /\ content.kind = "gml_valid"

\* lines 72-75, the body of the try: the exception it raises ("none" when it
\* runs to its end) and the value assigned to passed.
gml_try(di, content, e) ==
    LET schema_url == di.data_format.schema
        body == Web(schema_url)
    IN  IF body = "no_such_url" THEN [exc |-> "ValueError", value |-> FALSE]
        ELSE IF e.net = "down" THEN [exc |-> "URLError", value |-> FALSE]
        ELSE IF body = "not_xml" THEN [exc |-> "XMLSyntaxError", value |-> FALSE]
        ELSE IF body = "xml_not_schema"
             THEN [exc |-> "XMLSchemaParseError", value |-> FALSE]
        ELSE IF ~IsXML(content) THEN [exc |-> "XMLSyntaxError", value |-> FALSE]
        ELSE [exc |-> "none", value |-> xsd_validate(body, content)]

\* Variant of gml_except: only the XML parser's errors are caught.
gml_except_parse_errors(exc) ==
    exc \in {"XMLSyntaxError", "XMLSchemaParseError"}

\* line 76: `except Exception` catches every exception of the try body.
gml_except(exc) == TRUE

\* lines 61-78
gml_verystrict(s, di, content, e, mode) ==
    IF s.exc = "none" /\ mode >= MODE.VERYSTRICT
    THEN LET t == Log(s, "VERYSTRICT")
             r == gml_try(di, content, e)
         IN  IF r.exc = "none"
             THEN [t EXCEPT !.passed = r.value]
             ELSE IF gml_except(r.exc)
                  THEN [Log(t, "LOGGER.warning") EXCEPT !.passed = FALSE]
                  ELSE Raise(t, r.exc)
    ELSE s

\* lines 20-80
validategml(di, mode, reg, content, dir, e) ==
    gml_verystrict(
        gml_strict(
            gml_simple(gml_none(Start(dir), mode), di, reg, mode),
            content, mode),
        di, content, e, mode)

(***************************************************************************)
(* validategeojson                                                         *)
(***************************************************************************)

\* lines 103-104
geojson_none(s, mode) ==
    IF s.exc = "none" /\ mode >= MODE.NONE
    THEN [s EXCEPT !.passed = TRUE] ELSE s

\* lines 106-110
geojson_simple(s, di, reg, mode) ==
    IF s.exc = "none" /\ mode >= MODE.SIMPLE
    THEN LET mtype == guess_type(di.file)
         IN  [Log(s, "SIMPLE") EXCEPT
                !.passed = di.data_format.mime_type
                               \in {mtype, reg.GEOJSON.mime_type}]
    ELSE s

\* Variant of geojson_strict: a file that does not open is opened again.
geojson_strict_retry(s, content, mode) ==
    IF s.exc = "none" /\ mode >= MODE.STRICT
    THEN LET data_source == ogr_Open(content)
             t == Log(Log(s, "STRICT"), "ogr.Open")
         IN  IF data_source.opened
             THEN [t EXCEPT !.passed = (data_source.Name = "GeoJSON")]
             ELSE [Log(t, "ogr.Open") EXCEPT !.passed = FALSE]
    ELSE s

\* lines 112-119
geojson_strict(s, content, mode) ==
    IF s.exc = "none" /\ mode >= MODE.STRICT
    THEN LET data_source == ogr_Open(content)
             t == Log(Log(s, "STRICT"), "ogr.Open")
         IN  IF data_source.opened
             THEN [t EXCEPT !.passed = (data_source.Name = "GeoJSON")]
             ELSE [t EXCEPT !.passed = FALSE]
    ELSE s

\* Whether json.loads accepts the bytes (well-formed JSON).
IsJSON(content) ==
    content.kind \in {"geojson_valid", "geojson_invalid", "json_other"}

\* Draft4Validator.validate(document): conforms to the bundled schema or
\* raises jsonschema.ValidationError.
geojson_conforms(content) == content.kind = "geojson_valid"

\* lines 128-141: open() and json.load of the four bundled schema files.
geojson_load_schemas(e) ==
    IF e.schemas = "present" THEN "none" ELSE "IOError"

\* lines 155-156, the body of the try: the exception it raises.
geojson_try(content) ==
    IF ~IsJSON(content) THEN "ValueError"
    ELSE IF ~geojson_conforms(content) THEN "ValidationError"
    ELSE "none"

\* line 157: `except jsonschema.ValidationError`.
geojson_except(exc) == exc = "ValidationError"

\* lines 121-158
geojson_verystrict(s, content, e, mode) ==
    IF s.exc = "none" /\ mode >= MODE.VERYSTRICT
    THEN LET t == Log(s, "VERYSTRICT")
             l == geojson_load_schemas(e)
             r == geojson_try(content)
         IN  IF l # "none" THEN Raise(t, l)
             ELSE IF r = "none" THEN [t EXCEPT !.passed = TRUE]
             ELSE IF geojson_except(r) THEN [t EXCEPT !.passed = FALSE]
             ELSE Raise(t, r)
    ELSE s

\* lines 83-160
validategeojson(di, mode, reg, content, dir, e) ==
    geojson_verystrict(
        geojson_strict(
            geojson_simple(geojson_none(Start(dir), mode), di, reg, mode),
            content, mode),
        content, e, mode)

(***************************************************************************)
(* validateshapefile                                                       *)
(***************************************************************************)

\* lines 171-172
shapefile_none(s, mode) ==
    IF s.exc = "none" /\ mode >= MODE.NONE
    THEN [s EXCEPT !.passed = TRUE] ELSE s

\* Variant of shapefile_simple: the declared type must be the guessed one.
shapefile_simple_guess_only(s, di, reg, mode) ==
    IF s.exc = "none" /\ mode >= MODE.SIMPLE
    THEN LET mtype == guess_type(di.file)
         IN  [Log(s, "SIMPLE") EXCEPT
                !.passed = di.data_format.mime_type = mtype]
    ELSE s

\* lines 174-178
shapefile_simple(s, di, reg, mode) ==
    IF s.exc = "none" /\ mode >= MODE.SIMPLE
    THEN LET mtype == guess_type(di.file)
         IN  [Log(s, "SIMPLE") EXCEPT
                !.passed = di.data_format.mime_type \in {mtype, reg.SHP.mime_type}]
    ELSE s

\* zipfile.ZipFile.namelist(): the member names in archive order.
namelist(z) == [i \in 1..Len(z) |-> z[i].name]

\* zipfile.ZipFile.getinfo(name): of the members with that name, the one
\* added last.
getinfo(z, name) ==
    LET idx == {i \in 1..Len(z) : z[i].name = name}
    IN  z[CHOOSE i \in idx : \A j \in idx : j <= i]

\* line 189: the test of the member's extension
is_shp(name) == lower(splitext(name)[2]) = ".shp"

\* Variant of extract: only the .shp member is written.
extract_shp_only(z, name, dir) ==
    IF is_shp(name)
    THEN [n \in DOMAIN dir \cup {name} |->
             IF n = name THEN getinfo(z, name).content ELSE dir[n]]
    ELSE dir

\* line 188, zipfile.ZipFile.extract(name, path): writes the member to
\* path/name, replacing a file that is already there.
extract(z, name, dir) ==
    [n \in DOMAIN dir \cup {name} |->
        IF n = name THEN getinfo(z, name).content ELSE dir[n]]

\* lines 186-190: the loop over z.namelist(), from member i on; loc holds the
\* scratch directory and the local shape_name (unset while None).
RECURSIVE shapefile_loop(_, _, _)
shapefile_loop(z, i, loc) ==
    IF i > Len(z) THEN loc
    ELSE LET name == namelist(z)[i]
             dir  == extract(z, name, loc.dir)
         IN  shapefile_loop(z, i + 1,
                 IF is_shp(name)
                 THEN [dir |-> dir, found |-> TRUE, shape_name |-> name]
                 ELSE [loc EXCEPT !.dir = dir])

\* Variant of shapefile_opened: the path is opened as it was before the
\* archive was extracted.
shapefile_opened_before_extract(dirBefore, dirAfter, shape_name) ==
    IF shape_name \in DOMAIN dirBefore
    THEN dirBefore[shape_name] ELSE [kind |-> "missing", members |-> <<>>]

\* line 193: what ogr.Open finds at os.path.join(tempdir, shape_name).
shapefile_opened(dirBefore, dirAfter, shape_name) == dirAfter[shape_name]

\* lines 180-198
shapefile_strict(s, content, mode) ==
    IF s.exc = "none" /\ mode >= MODE.STRICT
    THEN LET t == Log(s, "STRICT")
         IN  IF content.kind # "zip" THEN Raise(t, "BadZipFile")
             ELSE
             LET z   == content.members
                 loc == shapefile_loop(z, 1,
                            [dir |-> s.dir, found |-> FALSE,
                             shape_name |-> [root |-> "", ext |-> ""]])
                 u   == [t EXCEPT !.dir = loc.dir]
             IN  IF ~loc.found
                 THEN \* data_source was never assigned: line 195 reads it
                      Raise(u, "UnboundLocalError")
                 ELSE LET data_source ==
                              ogr_Open(shapefile_opened(s.dir, loc.dir,
                                                        loc.shape_name))
                          v == Log(u, "ogr.Open")
                      IN  IF data_source.opened
                          THEN [v EXCEPT !.passed =
                                   (data_source.Name = "ESRI Shapefile")]
                          ELSE [v EXCEPT !.passed = FALSE]
    ELSE s

\* lines 163-200
validateshapefile(di, mode, reg, content, dir, e) ==
    shapefile_strict(
        shapefile_simple(shapefile_none(Start(dir), mode), di, reg, mode),
        content, mode)

(***************************************************************************)
(* validategeotiff                                                         *)
(***************************************************************************)

\* lines 210-211
geotiff_none(s, mode) ==
    IF s.exc = "none" /\ mode >= MODE.NONE
    THEN [s EXCEPT !.passed = TRUE] ELSE s

\* lines 213-217
geotiff_simple(s, di, reg, mode) ==
    IF s.exc = "none" /\ mode >= MODE.SIMPLE
    THEN LET mtype == guess_type(di.file)
         IN  [Log(s, "SIMPLE") EXCEPT
                !.passed = di.data_format.mime_type
                               \in {mtype, reg.GEOTIFF.mime_type}]
    ELSE s

\* Variant of geotiff_driver_ok: the driver's long name is compared.
geotiff_driver_ok_long_name(data_source) == data_source.Name = "GTiff"

\* line 224: the comparison of the driver's short name
geotiff_driver_ok(data_source) == data_source.ShortName = "GTiff"

\* lines 219-226
geotiff_strict(s, content, mode) ==
    IF s.exc = "none" /\ mode >= MODE.STRICT
    THEN LET data_source == gdal_Open(content)
             t == Log(Log(s, "STRICT"), "gdal.Open")
         IN  IF data_source.opened
             THEN [t EXCEPT !.passed = geotiff_driver_ok(data_source)]
             ELSE [t EXCEPT !.passed = FALSE]
    ELSE s

\* lines 203-228
validategeotiff(di, mode, reg, content, dir, e) ==
    geotiff_strict(
        geotiff_simple(geotiff_none(Start(dir), mode), di, reg, mode),
        content, mode)

(***************************************************************************)
(* The inputs that are enumerated                                          *)
(***************************************************************************)

Flat(kind) == [kind |-> kind, members |-> <<>>]

\* Contents of a plain (non-archive) file.
FlatContents ==
    {Flat(k) : k \in {"gml_valid", "gml_invalid", "xml_other", "geojson_valid",
                      "geojson_invalid", "json_other", "tiff", "png", "junk"}}

FileName(root, ext) == [root |-> root, ext |-> ext]

\* Members an archive is built from: two with the same name, one with an
\* upper-case extension, one that is no .shp.
MemberSet ==
    {[name |-> FileName("a", ".shp"), content |-> Flat("shp")],
     [name |-> FileName("a", ".shp"), content |-> Flat("junk")],
     [name |-> FileName("b", ".SHP"), content |-> Flat("shp")],
     [name |-> FileName("a", ".dbf"), content |-> Flat("dbf")]}

Archives ==
    {[kind |-> "zip", members |-> z] :
        z \in UNION {[1..n -> MemberSet] : n \in 0..MaxMembers}}

FileNames == {FileName("data", ".gml"), FileName("data", ".zip")}

MimeTypes ==
    {FormatRegistry.GML.mime_type, FormatRegistry.GEOJSON.mime_type,
     FormatRegistry.SHP.mime_type, FormatRegistry.GEOTIFF.mime_type,
     "application/zip"}

SchemaURLs ==
    {"http://schemas.example/gml.xsd", "http://schemas.example/any.xsd",
     "http://schemas.example/broken.xsd", "http://schemas.example/page.xml", ""}

\* A plain file is tried with every schema URL; an archive, which no XML
\* parser reads, with the registry's GML schema only.
ContentAndSchema ==
    (FlatContents \X SchemaURLs) \cup (Archives \X {FormatRegistry.GML.schema})

Envs ==
    {[net |-> "up", schemas |-> "present"],
     [net |-> "down", schemas |-> "present"],
     [net |-> "up", schemas |-> "missing"]}

\* What the scratch directory holds before the first call: a stale file
\* left by earlier work.
ScratchInit == [n \in {FileName("a", ".shp")} |-> Flat("junk")]

NoOutcome == [exc |-> "none", passed |-> FALSE]

NoCall(dir) ==
    [validator |-> "none", mode |-> MODE.NONE, exc |-> "none",
     passed |-> FALSE, trace |-> <<>>, dirBefore |-> dir,
     again |-> FALSE, before |-> NoOutcome]

Init ==
    /\ FORMATS = FormatRegistry
    /\ \E cs \in ContentAndSchema, f \in FileNames, m \in MimeTypes :
           /\ data_input = [file |-> f,
                            data_format |-> [mime_type |-> m, schema |-> cs[2]],
                            tempdir |-> "/tmp/pywps_workdir"]
           /\ fileContent = cs[1]
    /\ scratch = ScratchInit
    /\ env \in Envs
    /\ last = NoCall(scratch)

\* The bookkeeping of a call that ended in local state s: the verdict or the
\* escaped exception, the checks made, and, when this call repeats the
\* previous one (same validator, same mode, external state unchanged since),
\* what the previous one gave.
Record(v, mode, s) ==
    LET again == last.validator = v /\ last.mode = mode
    IN
    /\ last' = [validator |-> v, mode |-> mode, exc |-> s.exc,
                passed |-> s.passed, trace |-> s.trace,
                dirBefore |-> scratch,
                again |-> again,
                before |-> IF again
                           THEN [exc |-> last.exc, passed |-> last.passed]
                           ELSE NoOutcome]
    /\ scratch' = s.dir
    /\ UNCHANGED <<FORMATS, data_input, fileContent, env>>

ValidateGml ==
    \E mode \in Modes :
        Record("gml", mode,
               validategml(data_input, mode, FORMATS, fileContent, scratch, env))

ValidateGeojson ==
    \E mode \in Modes :
        Record("geojson", mode,
               validategeojson(data_input, mode, FORMATS, fileContent, scratch, env))

ValidateShapefile ==
    \E mode \in Modes :
        Record("shapefile", mode,
               validateshapefile(data_input, mode, FORMATS, fileContent, scratch, env))

ValidateGeotiff ==
    \E mode \in Modes :
        Record("geotiff", mode,
               validategeotiff(data_input, mode, FORMATS, fileContent, scratch, env))

\* The world outside changes: the network goes down or comes back, the
\* bundled schema files disappear or reappear.  The next call no longer
\* repeats the previous one under unchanged external state.
EnvChange ==
    /\ env' \in Envs \ {env}
    /\ last' = NoCall(scratch)
    /\ UNCHANGED <<FORMATS, data_input, fileContent, scratch>>

Next ==
    \/ ValidateGml
    \/ ValidateGeojson
    \/ ValidateShapefile
    \/ ValidateGeotiff
    \/ EnvChange

Spec == Init /\ [][Next]_vars

(***************************************************************************)
(* Properties                                                              *)
(***************************************************************************)

Called == last.validator # "none"

Returned == Called /\ last.exc = "none"

Declared == data_input.data_format.mime_type

\* The canonical MIME type of the format a validator is written for.
Canonical(v) ==
    CASE v = "gml"       -> FORMATS.GML.mime_type
      [] v = "geojson"   -> FORMATS.GEOJSON.mime_type
      [] v = "shapefile" -> FORMATS.SHP.mime_type
      [] v = "geotiff"   -> FORMATS.GEOTIFF.mime_type

\* C1: every validator called with mode NONE returns True, whatever the
\* declared MIME type, the file name and the file content are.
C1_NoneReturnsTrue ==
    (Called /\ last.mode = MODE.NONE)
        => (last.exc = "none" /\ last.passed = TRUE)

\* C1 case: a NONE call on junk content whose declared type is neither the
\* validator's canonical type nor the guessed one.
C1_Witness ==
    /\ last.validator = "geotiff" /\ last.mode = MODE.NONE
    /\ fileContent.kind = "junk"
    /\ Declared = FORMATS.GML.mime_type
    /\ guess_type(data_input.file) = "application/zip"
    /\ last.passed

LibraryOpen(v) ==
    IF v = "geotiff" THEN gdal_Open(fileContent) ELSE ogr_Open(fileContent)

ExpectedDriver(v) ==
    CASE v = "gml" -> "GML" [] v = "geojson" -> "GeoJSON" [] v = "geotiff" -> "GTiff"

ReportedDriver(v) ==
    IF v = "geotiff" THEN LibraryOpen(v).ShortName ELSE LibraryOpen(v).Name

\* C6: for validategml, validategeojson and validategeotiff at mode STRICT the
\* verdict is True exactly when the library opens the file and reports the
\* expected driver; when it cannot open the file the verdict is False and no
\* exception is raised.
C6_StrictIsDriverMatch ==
    (Called /\ last.mode = MODE.STRICT
        /\ last.validator \in {"gml", "geojson", "geotiff"}) =>
        /\ last.exc = "none"
        /\ last.passed <=>
              (LibraryOpen(last.validator).opened
               /\ ReportedDriver(last.validator) = ExpectedDriver(last.validator))

\* C6 case: a GeoTIFF file passes validategeotiff at STRICT although its
\* declared type fails the SIMPLE comparison.
C6_Witness ==
    /\ last.validator = "geotiff" /\ last.mode = MODE.STRICT
    /\ fileContent.kind = "tiff"
    /\ Declared = FORMATS.GML.mime_type
    /\ last.passed

\* The highest mode at or below the requested one for which the validator
\* defines a check.
HighestDefined(v, mode) ==
    IF v \in {"shapefile", "geotiff"} /\ mode > MODE.STRICT
    THEN MODE.STRICT ELSE mode

MimeMatches(v) ==
    Declared \in {guess_type(data_input.file), Canonical(v)}

\* The .shp members of the archive, by position.
ShpMembers == {i \in 1..Len(fileContent.members) :
                  is_shp(fileContent.members[i].name)}

\* The bytes found in the scratch directory under the name of the last .shp
\* member once every member has been extracted.
ExtractedShp ==
    LET z == fileContent.members
        i == CHOOSE k \in ShpMembers : \A j \in ShpMembers : j <= k
    IN  getinfo(z, z[i].name).content

ShapefileOpens ==
    /\ fileContent.kind = "zip"
    /\ ShpMembers # {}
    /\ ogr_Open(ExtractedShp).opened

\* What stops the VERYSTRICT step of validategml before the schema engine
\* gives its answer.
GmlSchemaStepFails ==
    \/ Web(data_input.data_format.schema) \notin {"xsd_gml", "xsd_any"}
    \/ env.net = "down"
    \/ ~IsXML(fileContent)

\* The result of the single check a validator defines for one mode.
CheckVerdict(v, m) ==
    CASE m = MODE.NONE   -> TRUE
      [] m = MODE.SIMPLE -> MimeMatches(v)
      [] m = MODE.STRICT ->
            IF v = "shapefile"
            THEN ShapefileOpens /\ ogr_Open(ExtractedShp).Name = "ESRI Shapefile"
            ELSE LibraryOpen(v).opened /\ ReportedDriver(v) = ExpectedDriver(v)
      [] m = MODE.VERYSTRICT ->
            IF v = "gml"
            THEN ~GmlSchemaStepFails
                 /\ xsd_validate(Web(data_input.data_format.schema), fileContent)
            ELSE geojson_conforms(fileContent)

\* C2: whenever a validator returns, its verdict is the result of the single
\* highest check the format defines at or below the requested mode, whatever
\* the lower checks gave; VERYSTRICT on Shapefile or GeoTIFF gives the STRICT
\* result.
C2_VerdictIsHighestCheck ==
    Returned =>
        last.passed = CheckVerdict(last.validator,
                                   HighestDefined(last.validator, last.mode))

\* C2 case: a VERYSTRICT call of validategml returns True on a document whose
\* SIMPLE check and STRICT check both fail.
C2_Witness ==
    /\ last.validator = "gml" /\ last.mode = MODE.VERYSTRICT
    /\ ~CheckVerdict("gml", MODE.SIMPLE)
    /\ ~CheckVerdict("gml", MODE.STRICT)
    /\ Returned /\ last.passed

\* C3 as stated: validateshapefile at STRICT or VERYSTRICT on an archive with
\* no .shp member, or whose .shp member the driver cannot open, returns False
\* and raises nothing.
C3_NoShpReturnsFalse ==
    (Called /\ last.validator = "shapefile" /\ last.mode >= MODE.STRICT
        /\ fileContent.kind = "zip" /\ ~ShapefileOpens)
        => (last.exc = "none" /\ last.passed = FALSE)

\* C4 as stated: validategeojson at VERYSTRICT lets no exception escape; a
\* failure to load the schemas, to parse the stream or to validate gives
\* False.
C4_GeojsonVeryStrictNeverRaises ==
    (Called /\ last.validator = "geojson" /\ last.mode = MODE.VERYSTRICT) =>
        /\ last.exc = "none"
        /\ (env.schemas = "missing" \/ ~IsJSON(fileContent)
               \/ ~geojson_conforms(fileContent)) => last.passed = FALSE

\* C5: validategml at VERYSTRICT lets no exception of the VERYSTRICT step
\* escape: when fetching or parsing the schema, building the XML Schema or
\* parsing the input fails, a warning is logged and the verdict is False;
\* otherwise the verdict is the boolean the schema validation returns.
C5_GmlVeryStrictNeverRaises ==
    (Called /\ last.validator = "gml" /\ last.mode = MODE.VERYSTRICT) =>
        /\ last.exc = "none"
        /\ IF GmlSchemaStepFails
           THEN /\ last.passed = FALSE
                /\ last.trace[Len(last.trace)] = "LOGGER.warning"
           ELSE /\ last.passed =
                     xsd_validate(Web(data_input.data_format.schema), fileContent)
                /\ \A i \in 1..Len(last.trace) : last.trace[i] # "LOGGER.warning"

\* C5 case: the schema URL cannot be fetched for a GML document that passed
\* the STRICT check; the call returns False after logging a warning.
C5_Witness ==
    /\ last.validator = "gml" /\ last.mode = MODE.VERYSTRICT
    /\ env.net = "down"
    /\ fileContent.kind = "gml_valid"
    /\ Web(data_input.data_format.schema) = "xsd_gml"
    /\ Returned /\ ~last.passed
    /\ last.trace[Len(last.trace)] = "LOGGER.warning"

\* C8: a call that repeats the previous call (same validator, same mode,
\* external state unchanged, the scratch directory as the previous call left
\* it) ends as the previous call did: the same verdict, or the same exception.
C8_Idempotent ==
    last.again =>
        /\ last.exc = last.before.exc
        /\ last.passed = last.before.passed

\* C8 case: validateshapefile at STRICT is called a second time, after the
\* first call has extracted the archive over the stale file in the scratch
\* directory, and returns True again.
C8_Witness ==
    /\ last.again
    /\ last.validator = "shapefile" /\ last.mode = MODE.STRICT
    /\ last.dirBefore # ScratchInit
    /\ last.dirBefore = scratch
    /\ Returned /\ last.passed /\ last.before.passed

\* The scratch directory after every member of the archive has been written
\* into directory dir.
AllExtracted(dir, z) ==
    LET names == {z[i].name : i \in 1..Len(z)}
    IN  [n \in DOMAIN dir \cup names |->
            IF n \in names THEN getinfo(z, n).content ELSE dir[n]]

\* The scratch directory is as the last call found it, unless that call was
\* validateshapefile at STRICT or above on an archive: then every member has
\* been written into it.
ScratchEffect ==
    scratch = IF /\ last.validator = "shapefile"
                 /\ last.mode >= MODE.STRICT
                 /\ fileContent.kind = "zip"
              THEN AllExtracted(last.dirBefore, fileContent.members)
              ELSE last.dirBefore

\* No step changes the input's path and format descriptor, the registry or
\* the input file; the scratch directory changes only in a call of
\* validateshapefile at STRICT or above.
IdentityUnchanged ==
    /\ data_input' = data_input
    /\ FORMATS' = FORMATS
    /\ fileContent' = fileContent
    /\ scratch' # scratch =>
           (last'.validator = "shapefile" /\ last'.mode >= MODE.STRICT)

\* C9: no call modifies the input's file path, its format descriptor or the
\* registry; the only write is validateshapefile's extraction, at STRICT or
\* above, of every archive member into the scratch directory, whether or not
\* a .shp is among them and whatever the call's end.
C9_Frame == [][IdentityUnchanged]_vars /\ []ScratchEffect

\* C9 case: validateshapefile at STRICT has written the only member of an
\* archive without .shp into the scratch directory, beside the stale file.
C9_Witness ==
    /\ last.validator = "shapefile" /\ last.mode = MODE.STRICT
    /\ fileContent.kind = "zip"
    /\ ShpMembers = {}
    /\ FileName("a", ".dbf") \in DOMAIN scratch
    /\ FileName("a", ".dbf") \notin DOMAIN last.dirBefore
    /\ data_input.tempdir = "/tmp/pywps_workdir"

IsCheckEvent(ev) ==
    ev \in {"SIMPLE", "STRICT", "VERYSTRICT", "ogr.Open", "gdal.Open"}

\* The library call a validator's STRICT check makes.
LibraryCall(v) ==
    CASE v \in {"gml", "geojson"} -> <<"ogr.Open">>
      [] v = "geotiff"            -> <<"gdal.Open">>
      [] v = "shapefile"          ->
            IF fileContent.kind = "zip" /\ ShpMembers # {}
            THEN <<"ogr.Open">> ELSE <<>>

\* The checks of a call with the requested mode, in ascending mode order.
ExpectedChecks(v, mode) ==
    (IF mode >= MODE.SIMPLE THEN <<"SIMPLE">> ELSE <<>>)
    \o (IF mode >= MODE.STRICT THEN <<"STRICT">> \o LibraryCall(v) ELSE <<>>)
    \o (IF mode >= MODE.VERYSTRICT /\ v \in {"gml", "geojson"}
        THEN <<"VERYSTRICT">> ELSE <<>>)

\* C10: a call with requested mode M begins every check defined for a mode
\* at or below M exactly once and in ascending order, none above M and none
\* twice; the library is opened once, inside the STRICT check and before the
\* VERYSTRICT check, and never in a NONE or SIMPLE call.
C10_ChecksInOrder ==
    Called =>
        SelectSeq(last.trace, IsCheckEvent)
            = ExpectedChecks(last.validator, last.mode)

\* C10 case: a VERYSTRICT call of validategeojson that returns has made the
\* SIMPLE comparison, then the library open, then the schema validation.
C10_Witness ==
    /\ last.validator = "geojson" /\ last.mode = MODE.VERYSTRICT
    /\ Returned
    /\ last.trace = <<"SIMPLE", "STRICT", "ogr.Open", "VERYSTRICT">>

====
